---- MODULE Spec2Model ----
(***************************************************************************)
(* Model of the IOU device wizard of gns3-gui:                             *)
(*   gns3/device_wizard.py                      (DeviceWizard)             *)
(*   gns3/modules/iou/dialogs/iou_device_wizard.py  (IOUDeviceWizard)      *)
(* The wizard is a single-threaded, event-driven state machine: every      *)
(* action below is one event handler run to completion, including the      *)
(* signal/slot cascade it triggers.                                        *)
(***************************************************************************)
EXTENDS Integers, Sequences, FiniteSets, TLC

(***************************************************************************)
(* Bounds of the model                                                     *)
(***************************************************************************)
\* number of image-list requests (loadImagesList calls) in one run
MaxRequests == 2
\* number of image selector groups the IOU wizard registers with addImageSelector
NumSelectors == 1

Selectors == 1..NumSelectors
\* the selector group of the IOU wizard (uiIOUImage* widgets)
IOUSelector == 1

(***************************************************************************)
(* Texts are sequences of characters, so that substring search and         *)
(* basename are computed as the code computes them.                        *)
(***************************************************************************)
EmptyText == <<>>
L2File == <<"l", "2">>
L3File == <<"l", "3">>
BothFile == <<"l", "3", "/", "l", "2">>
UpperFile == <<"L", "2">>

\* python: tok in text
Contains(tok, text) ==
    \E i \in 1..(Len(text) - Len(tok) + 1) : SubSeq(text, i, i + Len(tok) - 1) = tok

\* python: os.path.basename(path)
RECURSIVE Basename(_)
Basename(path) ==
    IF path = <<>> THEN <<>>
    ELSE IF path[Len(path)] = "/" THEN <<>>
    ELSE Append(Basename(SubSeq(path, 1, Len(path) - 1)), path[Len(path)])

\* image records returned by the server: at least a filename field
Vm(f, n) == [filename |-> f, size |-> n]
\* payloads of a successful GET /iou/vms
ImageLists ==
    { <<>>,
      <<Vm(L2File, 1)>>,
      <<Vm(L3File, 2), Vm(UpperFile, 3)>> }
\* payloads of a failed request: a record with a message field
ErrorPayloads == { [message |-> "not found"] }

\* texts the user types in the image path field
UserTexts == { BothFile }
\* paths returned by the file picker ("" when the user cancels it)
PickerPaths == { EmptyText, L3File }
\* names the user types
UserNames == { "R1", "r1" }
\* the registry of already configured devices (self._iou_devices)
iou_devices == { [name |-> "R1"], [name |-> "R2"] }

(***************************************************************************)
(* Servers                                                                 *)
(***************************************************************************)
LocalServer == [host |-> "127.0.0.1", port |-> 8000]
RemoteA == [host |-> "a", port |-> 8001]
RemoteB == [host |-> "b", port |-> 8002]
\* python None where an object (a server, an item, a settings dict) is expected
None == [none |-> TRUE]
\* gns3.settings.ENABLE_CLOUD: the cloud radio button is shown
ENABLE_CLOUD == TRUE
\* python None in the record of what a handler did
Nothing == "None"
\* self._image_list_progress_dialog is None
NoDialog == 0
\* the registry of remote servers, in the iteration order of the dict
Registries == { <<>>, <<RemoteB, RemoteA>> }

\* a format string that drops the port
FormatServer_HostOnly(server) == server.host

\* "{}:{}".format(server.host, server.port)
FormatServer(server) == server.host \o ":" \o ToString(server.port)

SeqRange(s) == { s[i] : i \in 1..Len(s) }

VARIABLES
    use_local_server,   \* IOU.instance().settings()["use_local_server"]
    remoteServers,      \* Servers.instance().remoteServers().values()
    page,               \* "init", "server", "name", "done"
    radio,              \* checked one of uiLocalRadioButton/uiRemoteRadioButton/uiCloudRadioButton
    loadBalance,        \* uiLoadBalanceCheckBox.isChecked()
    remoteGroupEnabled, \* uiRemoteServersGroupBox.isEnabled()
    remoteComboEnabled, \* uiRemoteServersComboBox.isEnabled()
    remoteCombo,        \* items of uiRemoteServersComboBox: <<[text, data]>>
    remoteIndex,        \* uiRemoteServersComboBox.currentIndex(), 0-based, -1 when empty
    server,             \* self._server
    nameText,           \* uiNameLineEdit.text()
    typeIndex,          \* uiTypeComboBox.currentIndex(): 0 = "L2 image", 1 = "L3 image"
    logoPixmap,         \* the wizard's logo pixmap
    existingChecked,    \* per selector: the "existing image" radio button
    comboItems,         \* per selector: items of the image combo box: <<[text, data]>>
    comboIndex,         \* per selector: currentIndex of the image combo box
    comboVisible,       \* per selector
    lineText,           \* per selector: text of the image line edit
    lineVisible,        \* per selector
    browserVisible,     \* per selector: the browse button
    progressDialog,     \* self._image_list_progress_dialog: None or a dialog id
    dialogs,            \* the QProgressDialog objects created: id -> [canceled, visible]
    requests,           \* the GETs issued: id -> [server, endpoint, state] while in
                        \* flight, [state] once the callback has been called
    out,                \* what the last handler returned / showed / raised
    settings,           \* result of getSettings, None before
    posts,              \* Node: the POSTs issued: <<[path, port_id, state, result]>>
    signals             \* Node: the allocate_udp_nio_signal emissions, in order

wizardVars == <<page, radio, loadBalance, remoteGroupEnabled, remoteComboEnabled,
                remoteCombo, remoteIndex, server, nameText>>
typeVars == <<typeIndex, logoPixmap>>
selectorVars == <<existingChecked, comboItems, comboIndex, comboVisible,
                  lineText, lineVisible, browserVisible>>
fetchVars == <<progressDialog, dialogs, requests>>
envVars == <<use_local_server, remoteServers>>
nodeVars == <<posts, signals>>
wizardAllVars == <<envVars, wizardVars, typeVars, selectorVars, fetchVars, out, settings>>
vars == <<wizardAllVars, nodeVars>>

\* the record of what a handler did besides changing the widgets
Out(op, arg, ret, dialog, exc) ==
    [op |-> op, arg |-> arg, ret |-> ret, dialog |-> dialog, exc |-> exc]

(***************************************************************************)
(* Slots of the type control and of the image line edit                    *)
(***************************************************************************)
\* IOUDeviceWizard._typeChangedSlot
TypeChangedSlot(index) ==
    IF index = 0 THEN ":/symbols/multilayer_switch.normal.svg" ELSE ":/symbols/router.normal.svg"

\* the two tests in the other order
ImageLineEditTextChangedSlot_L3First(text, type) ==
    IF Contains(<<"l", "3">>, text) THEN 1
    ELSE IF Contains(<<"l", "2">>, text) THEN 0
    ELSE type

\* IOUDeviceWizard._imageLineEditTextChangedSlot: the type index after the slot
ImageLineEditTextChangedSlot(text, type) ==
    IF Contains(<<"l", "2">>, text) THEN 0
    ELSE IF Contains(<<"l", "3">>, text) THEN 1
    ELSE type

\* QLineEdit.setText on the line edit of selector s: textChanged is emitted
\* only when the text changes, and only the IOU line edit is connected
TypeAfterSetText(s, old, new, type) ==
    IF s = IOUSelector /\ new # old THEN ImageLineEditTextChangedSlot(new, type) ELSE type

(***************************************************************************)
(* Construction                                                            *)
(***************************************************************************)
\* The state after IOUDeviceWizard.__init__.  The widgets start as the form
\* lays them out: local server and "existing image" checked, fields empty.
\* addItems selects "L2 image"; addImageSelector ends with
\* _existingImageToggledSlot(True, ...), which hides the line edit and the
\* browse button.
Init ==
    /\ use_local_server \in BOOLEAN
    /\ remoteServers \in Registries
    /\ page = "init"
    /\ radio = "local"
    /\ loadBalance = FALSE
    /\ remoteGroupEnabled = FALSE
    /\ remoteComboEnabled = TRUE
    /\ remoteCombo = <<>>
    /\ remoteIndex = -1
    /\ server = LocalServer
    /\ nameText = ""
    /\ typeIndex = 0
    /\ logoPixmap = TypeChangedSlot(0)
    /\ existingChecked = [s \in Selectors |-> TRUE]
    /\ comboItems = [s \in Selectors |-> <<>>]
    /\ comboIndex = [s \in Selectors |-> -1]
    /\ comboVisible = [s \in Selectors |-> TRUE]
    /\ lineText = [s \in Selectors |-> EmptyText]
    /\ lineVisible = [s \in Selectors |-> FALSE]
    /\ browserVisible = [s \in Selectors |-> FALSE]
    /\ progressDialog = NoDialog
    /\ dialogs = <<>>
    /\ requests = <<>>
    /\ out = Out("init", Nothing, Nothing, Nothing, Nothing)
    /\ settings = None
    /\ posts = <<>>
    /\ signals = <<>>

(***************************************************************************)
(* DeviceWizard: server page                                               *)
(***************************************************************************)
\* no progress dialog blocks the input of the wizard: loadImagesList shows the
\* dialog window-modal, so the user reaches the wizard again only once the
\* dialog is closed (cancelled by the user, or accepted by the callback)
NoModal == \A d \in DOMAIN dialogs : ~dialogs[d].visible

\* the chooser if the subclass added its entries without clear()
RemoteComboItems_NoClear(servers) ==
    [i \in 1..(2 * Len(servers)) |->
        LET srv == servers[((i - 1) % Len(servers)) + 1]
        IN  [text |-> FormatServer(srv), data |-> srv]]

\* the chooser as filled by initializePage: clear(), then one addItem per server
RemoteComboItems(servers) ==
    [i \in 1..Len(servers) |-> [text |-> FormatServer(servers[i]), data |-> servers[i]]]

\* QComboBox.itemData(index): None for an index that has no item
ItemData(items, index) ==
    IF index >= 0 /\ index < Len(items) THEN items[index + 1].data ELSE None

\* QComboBox.currentText()
CurrentText(items, index) ==
    IF index >= 0 /\ index < Len(items) THEN items[index + 1].text ELSE ""

\* DeviceWizard._remoteServerToggledSlot: <<group box enabled, browse buttons>>
RemoteServerToggledSlot(checked) ==
    [group |-> checked, browsers |-> [s \in Selectors |-> ~checked]]

\* the chosen server stored without looking at the registry
ValidateServerPage_NoRegistryCheck ==
    IF radio = "remote"
    THEN [ret |-> "True", server |-> ItemData(remoteCombo, remoteIndex), dialog |-> Nothing]
    ELSE [ret |-> "True", server |-> LocalServer, dialog |-> Nothing]

\* DeviceWizard.validateCurrentPage followed by the part IOUDeviceWizard adds:
\* the result on the server page
ValidateServerPage ==
    IF radio = "remote"
    THEN IF remoteServers = <<>>
         THEN [ret |-> "False", server |-> server,
               dialog |-> "There is no remote server registered for this type of VM in preferences"]
         ELSE [ret |-> "True", server |-> ItemData(remoteCombo, remoteIndex), dialog |-> Nothing]
    ELSE [ret |-> "True", server |-> LocalServer, dialog |-> Nothing]

\* upper case of the names used here
Upper(name) == IF name = "r1" THEN "R1" ELSE name

\* a comparison that ignores case
ValidateNamePage_IgnoreCase ==
    IF \E iou_device \in iou_devices : Upper(iou_device.name) = Upper(nameText)
    THEN [ret |-> "False", dialog |-> "is already used, please choose another name"]
    ELSE [ret |-> "True", dialog |-> Nothing]

\* IOUDeviceWizard.validateCurrentPage on the name page
ValidateNamePage ==
    IF \E iou_device \in iou_devices : iou_device.name = nameText
    THEN [ret |-> "False", dialog |-> "is already used, please choose another name"]
    ELSE [ret |-> "True", dialog |-> Nothing]

(***************************************************************************)
(* DeviceWizard.loadImagesList                                             *)
(***************************************************************************)
\* the fetch state after loadImagesList(endpoint) with self._server = srv
LoadImagesList(endpoint, srv) ==
    LET id == Len(requests) + 1
        rejected == IF progressDialog # NoDialog
                    THEN [dialogs EXCEPT ![progressDialog].visible = FALSE]
                    ELSE dialogs
    IN  /\ progressDialog' = id
        /\ dialogs' = Append(rejected, [canceled |-> FALSE, visible |-> TRUE])
        /\ requests' = Append(requests, [server |-> srv, endpoint |-> endpoint, state |-> "inflight"])

\* IOUDeviceWizard.initializePage on the name page
InitializeNamePage(srv) ==
    /\ Len(requests) < MaxRequests
    /\ LoadImagesList("/iou/vms", srv)

NamePageWarning ==
    IF radio # "local" THEN "You have chosen to use a remote server" ELSE Nothing

\* the start page without the skip of the server page
StartId_NoSkip == "server"

\* the page the wizard starts at: setStartId(1) skips the server page when
\* the local server is used
StartId == IF use_local_server THEN "name" ELSE "server"

\* QWizard.show: initializePage(startId)
Start ==
    /\ page = "init"
    /\ IF StartId = "name"
       THEN /\ page' = "name"
            /\ InitializeNamePage(server)
            /\ out' = Out("initializePage", "name", Nothing, NamePageWarning, Nothing)
            /\ UNCHANGED <<remoteCombo, remoteIndex>>
       ELSE /\ page' = "server"
            /\ remoteCombo' = RemoteComboItems(remoteServers)
            /\ remoteIndex' = IF remoteServers = <<>> THEN -1 ELSE 0
            /\ out' = Out("initializePage", "server", Nothing, Nothing, Nothing)
            /\ UNCHANGED fetchVars
    /\ UNCHANGED <<nodeVars, envVars, radio, loadBalance, remoteGroupEnabled, remoteComboEnabled,
                   server, nameText, typeVars, selectorVars, settings>>

\* the user checks another server radio button
SelectRadio(r) ==
    /\ page = "server"
    /\ NoModal
    /\ r # radio
    /\ r = "cloud" => ENABLE_CLOUD
    /\ radio' = r
    /\ IF r = "remote" \/ radio = "remote"
       THEN LET slot == RemoteServerToggledSlot(r = "remote")
            IN  /\ remoteGroupEnabled' = slot.group
                /\ browserVisible' = slot.browsers
       ELSE UNCHANGED <<remoteGroupEnabled, browserVisible>>
    /\ out' = Out("user", Nothing, Nothing, Nothing, Nothing)
    /\ UNCHANGED <<nodeVars, envVars, page, loadBalance, remoteComboEnabled, remoteCombo, remoteIndex,
                   server, nameText, typeVars, existingChecked, comboItems, comboIndex,
                   comboVisible, lineText, lineVisible, fetchVars, settings>>

\* DeviceWizard._loadBalanceToggledSlot
LoadBalanceToggled ==
    /\ page = "server"
    /\ NoModal
    /\ loadBalance' = ~loadBalance
    /\ remoteComboEnabled' = loadBalance
    /\ out' = Out("user", Nothing, Nothing, Nothing, Nothing)
    /\ UNCHANGED <<nodeVars, envVars, page, radio, remoteGroupEnabled, remoteCombo, remoteIndex,
                   server, nameText, typeVars, selectorVars, fetchVars, settings>>

\* the user picks a server in the chooser
SelectRemoteServer(i) ==
    /\ page = "server"
    /\ NoModal
    /\ remoteGroupEnabled /\ remoteComboEnabled
    /\ i \in 0..(Len(remoteCombo) - 1)
    /\ i # remoteIndex
    /\ remoteIndex' = i
    /\ out' = Out("user", Nothing, Nothing, Nothing, Nothing)
    /\ UNCHANGED <<nodeVars, envVars, page, radio, loadBalance, remoteGroupEnabled, remoteComboEnabled,
                   remoteCombo, server, nameText, typeVars, selectorVars, fetchVars, settings>>

\* Next on the server page: validateCurrentPage, then initializePage of the name page
NextServerPage ==
    /\ page = "server"
    /\ NoModal
    /\ LET v == ValidateServerPage
       IN  /\ server' = v.server
           /\ IF v.ret = "True"
              THEN /\ page' = "name"
                   /\ InitializeNamePage(v.server)
                   /\ out' = Out("validateCurrentPage", "server", "True", NamePageWarning, Nothing)
              ELSE /\ out' = Out("validateCurrentPage", "server", "False", v.dialog, Nothing)
                   /\ UNCHANGED <<page, fetchVars>>
    /\ UNCHANGED <<nodeVars, envVars, radio, loadBalance, remoteGroupEnabled, remoteComboEnabled,
                   remoteCombo, remoteIndex, nameText, typeVars, selectorVars, settings>>

(***************************************************************************)
(* DeviceWizard: image selector groups                                     *)
(***************************************************************************)
\* DeviceWizard._imageListIndexChangedSlot: the text of the line edit after the
\* slot, and the exception it raises for an index that has no item
ImageListIndexChangedSlot(index, items, text) ==
    LET item == ItemData(items, index)
    IN  IF item # None
        THEN [text |-> item.filename, exc |-> Nothing]
        ELSE [text |-> text, exc |-> "TypeError"]

\* combo_box.clear() followed by one addItem(vm["filename"], vm) per record,
\* with the currentIndexChanged signals the two emit
Repopulate(s, result) ==
    LET cleared == IF comboIndex[s] # -1
                   THEN ImageListIndexChangedSlot(-1, <<>>, lineText[s])
                   ELSE [text |-> lineText[s], exc |-> Nothing]
        items == [i \in 1..Len(result) |-> [text |-> result[i].filename, data |-> result[i]]]
        added == IF result # <<>>
                 THEN ImageListIndexChangedSlot(0, items, cleared.text)
                 ELSE [text |-> cleared.text, exc |-> Nothing]
    IN  [items |-> items,
         index |-> IF result = <<>> THEN -1 ELSE 0,
         text |-> added.text,
         exc |-> IF cleared.exc # Nothing THEN cleared.exc ELSE added.exc]

\* the user edits the name
EditName(n) ==
    /\ page = "name"
    /\ NoModal
    /\ n # nameText
    /\ nameText' = n
    /\ out' = Out("user", Nothing, Nothing, Nothing, Nothing)
    /\ UNCHANGED <<nodeVars, envVars, page, radio, loadBalance, remoteGroupEnabled, remoteComboEnabled,
                   remoteCombo, remoteIndex, server, typeVars, selectorVars, fetchVars, settings>>

\* the user edits the image path of selector s
EditImageText(s, t) ==
    /\ page = "name"
    /\ NoModal
    /\ lineVisible[s]
    /\ t # lineText[s]
    /\ lineText' = [lineText EXCEPT ![s] = t]
    /\ typeIndex' = TypeAfterSetText(s, lineText[s], t, typeIndex)
    /\ logoPixmap' = TypeChangedSlot(typeIndex')
    /\ out' = Out("user", Nothing, Nothing, Nothing, Nothing)
    /\ UNCHANGED <<nodeVars, envVars, wizardVars, existingChecked, comboItems, comboIndex, comboVisible,
                   lineVisible, browserVisible, fetchVars, settings>>

\* the user picks a type in uiTypeComboBox
SelectType(i) ==
    /\ page = "name"
    /\ NoModal
    /\ i # typeIndex
    /\ typeIndex' = i
    /\ logoPixmap' = TypeChangedSlot(i)
    /\ out' = Out("user", Nothing, Nothing, Nothing, Nothing)
    /\ UNCHANGED <<nodeVars, envVars, wizardVars, selectorVars, fetchVars, settings>>

\* DeviceWizard._existingImageToggledSlot, run when the user toggles the radio button
ExistingImageToggled(s) ==
    /\ page = "name"
    /\ NoModal
    /\ LET checked == ~existingChecked[s]
           text == IF checked
                   THEN IF Len(comboItems[s]) > 0
                        THEN ItemData(comboItems[s], comboIndex[s]).filename
                        ELSE lineText[s]
                   ELSE EmptyText
       IN  /\ existingChecked' = [existingChecked EXCEPT ![s] = checked]
           /\ comboVisible' = [comboVisible EXCEPT ![s] = checked]
           /\ browserVisible' = [browserVisible EXCEPT ![s] = ~checked]
           /\ lineVisible' = [lineVisible EXCEPT ![s] = ~checked]
           /\ lineText' = [lineText EXCEPT ![s] = text]
           /\ typeIndex' = TypeAfterSetText(s, lineText[s], text, typeIndex)
           /\ logoPixmap' = TypeChangedSlot(typeIndex')
           /\ out' = Out("user", Nothing, Nothing, Nothing, Nothing)
    /\ UNCHANGED <<nodeVars, envVars, wizardVars, comboItems, comboIndex, fetchVars, settings>>

\* the user picks entry i of the image combo box of selector s
SelectImage(s, i) ==
    /\ page = "name"
    /\ NoModal
    /\ comboVisible[s]
    /\ i \in 0..(Len(comboItems[s]) - 1)
    /\ i # comboIndex[s]
    /\ LET slot == ImageListIndexChangedSlot(i, comboItems[s], lineText[s])
       IN  /\ comboIndex' = [comboIndex EXCEPT ![s] = i]
           /\ lineText' = [lineText EXCEPT ![s] = slot.text]
           /\ typeIndex' = TypeAfterSetText(s, lineText[s], slot.text, typeIndex)
           /\ logoPixmap' = TypeChangedSlot(typeIndex')
           /\ out' = Out("user", Nothing, Nothing, Nothing, slot.exc)
    /\ UNCHANGED <<nodeVars, envVars, wizardVars, existingChecked, comboItems, comboVisible,
                   lineVisible, browserVisible, fetchVars, settings>>

\* DeviceWizard._imageBrowserSlot: the picker returns path
ImageBrowserSlot(s, path) ==
    /\ page = "name"
    /\ NoModal
    /\ browserVisible[s]
    /\ IF path = EmptyText
       THEN UNCHANGED <<lineText, typeVars>>
       ELSE /\ lineText' = [lineText EXCEPT ![s] = path]
            \* clear() then setText(path): textChanged is emitted for "" and for path
            /\ typeIndex' = TypeAfterSetText(s, EmptyText, path,
                                TypeAfterSetText(s, lineText[s], EmptyText, typeIndex))
            /\ logoPixmap' = TypeChangedSlot(typeIndex')
    /\ out' = Out("user", Nothing, Nothing, Nothing, Nothing)
    /\ UNCHANGED <<nodeVars, envVars, wizardVars, existingChecked, comboItems, comboIndex, comboVisible,
                   lineVisible, browserVisible, fetchVars, settings>>

\* Back on the name page: QWizardPage.cleanupPage resets the fields registered
\* on the page (name, image) to the values they had when they were registered
Back ==
    /\ page = "name"
    /\ NoModal
    \* there is no page before the start page
    /\ StartId = "server"
    /\ page' = "server"
    /\ nameText' = ""
    /\ lineText' = [lineText EXCEPT ![IOUSelector] = EmptyText]
    /\ typeIndex' = TypeAfterSetText(IOUSelector, lineText[IOUSelector], EmptyText, typeIndex)
    /\ logoPixmap' = TypeChangedSlot(typeIndex')
    /\ out' = Out("user", Nothing, Nothing, Nothing, Nothing)
    /\ UNCHANGED <<nodeVars, envVars, radio, loadBalance, remoteGroupEnabled, remoteComboEnabled,
                   remoteCombo, remoteIndex, server, existingChecked, comboItems, comboIndex,
                   comboVisible, lineVisible, browserVisible, fetchVars, settings>>

(***************************************************************************)
(* The image-list fetch                                                    *)
(***************************************************************************)
\* the user cancels the progress dialog d (Cancel button, Esc or close)
CancelProgress(d) ==
    /\ d \in DOMAIN dialogs
    /\ dialogs[d].visible
    /\ dialogs' = [dialogs EXCEPT ![d] = [canceled |-> TRUE, visible |-> FALSE]]
    /\ out' = Out("user", Nothing, Nothing, Nothing, Nothing)
    /\ UNCHANGED <<nodeVars, envVars, wizardVars, typeVars, selectorVars, progressDialog, requests, settings>>

\* the callback without the return that follows the error dialog
CallbackBranch_NoErrorReturn(progress_dialog, error) ==
    IF progress_dialog = NoDialog THEN "AttributeError"
    ELSE IF dialogs[progress_dialog].canceled THEN "return"
    ELSE "populate"

\* DeviceWizard._getImagesFromServerCallback up to the loop: which way the
\* callback leaves, given self._image_list_progress_dialog and the error flag
CallbackBranch(progress_dialog, error) ==
    IF progress_dialog = NoDialog THEN "AttributeError"     \* None.wasCanceled()
    ELSE IF dialogs[progress_dialog].canceled THEN "return"
    ELSE IF error THEN "critical"
    ELSE "populate"

\* what "for vm in result" adds: the records of a list; iterating an error
\* payload (a dict) yields its keys, and vm["filename"] raises on the first
Vms(result, error) == IF error THEN <<>> ELSE result

\* DeviceWizard._getImagesFromServerCallback(result, error), called when
\* request r completes
GetImagesFromServerCallback(r, result, error) ==
    LET progress_dialog == progressDialog
        branch == CallbackBranch(progress_dialog, error)
        arg == [req |-> r, error |-> error, result |-> result]
    IN  /\ progressDialog' = NoDialog
        /\ dialogs' = IF branch \in {"critical", "populate"}
                      THEN [dialogs EXCEPT ![progress_dialog].visible = FALSE]  \* accept()
                      ELSE dialogs
        /\ IF branch = "populate"
           THEN LET new == [s \in Selectors |-> Repopulate(s, Vms(result, error))]
                    raised == { s \in Selectors : new[s].exc # Nothing }
                IN  /\ comboItems' = [s \in Selectors |-> new[s].items]
                    /\ comboIndex' = [s \in Selectors |-> new[s].index]
                    /\ lineText' = [s \in Selectors |-> new[s].text]
                    /\ typeIndex' = TypeAfterSetText(IOUSelector, lineText[IOUSelector],
                                                     new[IOUSelector].text, typeIndex)
                    /\ logoPixmap' = TypeChangedSlot(typeIndex')
                    /\ out' = Out("callback", arg, Nothing, Nothing,
                                  IF error THEN "TypeError"
                                  ELSE IF raised = {} THEN Nothing
                                  ELSE new[CHOOSE s \in raised : TRUE].exc)
           ELSE /\ out' = Out("callback", arg, Nothing,
                              IF branch = "critical"
                              THEN "Error while getting the VMs: " \o result.message
                              ELSE Nothing,
                              IF branch = "AttributeError" THEN branch ELSE Nothing)
                /\ UNCHANGED <<typeVars, comboItems, comboIndex, lineText>>

\* request r completes with a list of images or with an error
Complete(r) ==
    /\ page # "done"
    /\ r \in DOMAIN requests
    /\ requests[r].state = "inflight"
    /\ requests' = [requests EXCEPT ![r] = [state |-> "done"]]
    /\ \/ \E result \in ImageLists : GetImagesFromServerCallback(r, result, FALSE)
       \/ \E result \in ErrorPayloads : GetImagesFromServerCallback(r, result, TRUE)
    /\ UNCHANGED <<nodeVars, envVars, wizardVars, existingChecked, comboVisible, lineVisible,
                   browserVisible, settings>>

(***************************************************************************)
(* IOUDeviceWizard.getSettings                                             *)
(***************************************************************************)
TypeItems == <<"L2 image", "L3 image">>
\* what get_default_base_config returns: the template's text, or nothing
BaseConfigs == { "", "hostname %h" }

\* next(iter(Servers.instance())): one of the registered remote servers
ServersIter == SeqRange(remoteServers)

\* the adapter counts of the two types exchanged
TypeDefaults_SwappedAdapters(currentText) ==
    IF currentText = "L2 image"
    THEN [default_symbol |-> ":/symbols/multilayer_switch.normal.svg",
          hover_symbol |-> ":/symbols/multilayer_switch.selected.svg",
          category |-> "switches",
          ethernet_adapters |-> 2,
          serial_adapters |-> 2]
    ELSE [default_symbol |-> ":/symbols/router.normal.svg",
          hover_symbol |-> ":/symbols/router.selected.svg",
          category |-> "routers",
          ethernet_adapters |-> 4,
          serial_adapters |-> 0]

\* the branch of getSettings on uiTypeComboBox.currentText()
TypeDefaults(currentText) ==
    IF currentText = "L2 image"
    THEN [default_symbol |-> ":/symbols/multilayer_switch.normal.svg",
          hover_symbol |-> ":/symbols/multilayer_switch.selected.svg",
          category |-> "switches",
          ethernet_adapters |-> 4,
          serial_adapters |-> 0]
    ELSE [default_symbol |-> ":/symbols/router.normal.svg",
          hover_symbol |-> ":/symbols/router.selected.svg",
          category |-> "routers",
          ethernet_adapters |-> 2,
          serial_adapters |-> 2]

GetSettings(default_base_config, first) ==
    LET path == lineText[IOUSelector]
        initial_config == IF default_base_config # "" THEN default_base_config ELSE ""
        byType == TypeDefaults(TypeItems[typeIndex + 1])
        token == IF radio = "local" THEN "local"
                 ELSE IF radio = "remote"
                 THEN IF loadBalance
                      THEN FormatServer(first)
                      ELSE CurrentText(remoteCombo, remoteIndex)
                 ELSE "cloud"
    IN  [name |-> nameText,
         path |-> path,
         image |-> Basename(path),
         initial_config |-> initial_config,
         ethernet_adapters |-> byType.ethernet_adapters,
         serial_adapters |-> byType.serial_adapters,
         default_symbol |-> byType.default_symbol,
         category |-> byType.category,
         hover_symbol |-> byType.hover_symbol,
         server |-> token]

\* Finish on the name page: validateCurrentPage, then the caller reads getSettings
Finish ==
    /\ page = "name"
    /\ NoModal
    \* the mandatory fields "name*" and "image*"
    /\ nameText # ""
    /\ lineText[IOUSelector] # EmptyText
    /\ LET v == ValidateNamePage
       IN  /\ out' = Out("validateCurrentPage", "name", v.ret, v.dialog, Nothing)
           /\ IF v.ret = "True"
              THEN /\ page' = "done"
                   /\ \E config \in BaseConfigs :
                        \E first \in (IF radio = "remote" /\ loadBalance THEN ServersIter ELSE {None}) :
                            settings' = GetSettings(config, first)
              ELSE UNCHANGED <<page, settings>>
    /\ UNCHANGED <<nodeVars, envVars, radio, loadBalance, remoteGroupEnabled, remoteComboEnabled,
                   remoteCombo, remoteIndex, server, nameText, typeVars, selectorVars, fetchVars>>

(***************************************************************************)
(* The wizard                                                              *)
(***************************************************************************)
Next ==
    \/ Start
    \/ \E r \in {"local", "remote", "cloud"} : SelectRadio(r)
    \/ LoadBalanceToggled
    \/ \E i \in 0..1 : SelectRemoteServer(i)
    \/ NextServerPage
    \/ \E n \in UserNames : EditName(n)
    \/ \E s \in Selectors : \E t \in UserTexts : EditImageText(s, t)
    \/ \E i \in 0..1 : SelectType(i)
    \/ \E s \in Selectors : ExistingImageToggled(s)
    \/ \E s \in Selectors : \E i \in 0..1 : SelectImage(s, i)
    \/ \E s \in Selectors : \E path \in PickerPaths : ImageBrowserSlot(s, path)
    \/ Back
    \/ Finish
    \/ \E d \in 1..MaxRequests : CancelProgress(d)
    \/ \E r \in 1..MaxRequests : Complete(r)

Spec == Init /\ [][Next]_vars

(***************************************************************************)
(* Node.allocateUDPPort, as test_allocateUDPPort drives it                 *)
(***************************************************************************)
\* number of allocateUDPPort calls in one run
MaxPosts == 2
\* vpcs_device.id()
NodeId == 7
PortIds == { 1, 2 }
\* what the server answers: a result with a udp_port, or an error
UdpResults == { [udp_port |-> 4242], [udp_port |-> 4243] }
NoResult == [none |-> TRUE]

\* the signal with port id and udp port exchanged
AllocateUDPPortSignal_Swapped(port_id, result) == <<NodeId, result.udp_port, port_id>>

\* the arguments of allocate_udp_nio_signal for the call allocateUDPPort(port_id)
AllocateUDPPortSignal(port_id, result) == <<NodeId, port_id, result.udp_port>>

\* Node.allocateUDPPort(port_id): POST /ports/udp with a callback bound to port_id
AllocateUDPPort(port_id) ==
    /\ Len(posts) < MaxPosts
    /\ posts' = Append(posts, [path |-> "/ports/udp", port_id |-> port_id,
                               state |-> "pending", result |-> NoResult])
    /\ UNCHANGED <<signals, wizardAllVars>>

\* the callback of POST i is called with result (error = FALSE) or with an error
AllocateUDPPortCallback(i, result, error) ==
    /\ i \in DOMAIN posts
    /\ posts[i].state = "pending"
    /\ posts' = [posts EXCEPT ![i].state = IF error THEN "error" ELSE "done",
                              ![i].result = IF error THEN NoResult ELSE result]
    /\ signals' = IF error THEN signals
                  ELSE Append(signals, AllocateUDPPortSignal(posts[i].port_id, result))
    /\ UNCHANGED wizardAllVars

NextNode ==
    \/ \E port_id \in PortIds : AllocateUDPPort(port_id)
    \/ \E i \in 1..MaxPosts : \E result \in UdpResults :
          \E error \in BOOLEAN : AllocateUDPPortCallback(i, result, error)

SpecNode == Init /\ [][NextNode]_vars

(***************************************************************************)
(* Properties                                                              *)
(***************************************************************************)
\* the step is the completion of request r
CompletionStep(r) ==
    /\ r \in DOMAIN requests
    /\ requests[r].state = "inflight"
    /\ requests'[r].state = "done"

\* the requests issued and not yet completed
InFlight == { r \in DOMAIN requests : requests[r].state = "inflight" }

\* the entries a combo box holds when filled from the records of result
EntriesOf(result) ==
    [i \in 1..Len(result) |-> [text |-> result[i].filename, data |-> result[i]]]

\* C1: the completion of a request that a later loadImagesList call has
\* superseded changes no image combo box.
C1_StaleCompletionChangesNothing ==
    [][\A r \in DOMAIN requests :
         (CompletionStep(r) /\ r < Len(requests))
            => UNCHANGED <<comboItems, comboIndex>>]_vars

\* C2: in every reachable state at most one image-list request is in flight.
C2_AtMostOneOutstanding == Cardinality(InFlight) <= 1

\* C3: the completion of a fetch whose progress dialog the user cancelled
\* changes no combo box and shows no error dialog.
C3_CancelledCompletionIsSilent ==
    [][\A r \in DOMAIN requests :
         (CompletionStep(r) /\ dialogs[r].canceled)
            => (UNCHANGED <<comboItems, comboIndex>> /\ out'.dialog = Nothing)]_vars

\* C4: a completion with the error flag set leaves every image combo box and
\* every image path text field as it was.
C4_ErrorLeavesSelectorsUnchanged ==
    [][\A r \in DOMAIN requests :
         (CompletionStep(r) /\ out'.arg.error)
            => UNCHANGED <<comboItems, comboIndex, lineText>>]_vars

\* C4 witness: an error was reported while the combo box held entries
C4_Witness ==
    /\ out.op = "callback"
    /\ out.arg.error
    /\ out.dialog # Nothing
    /\ comboItems[IOUSelector] # <<>>

\* C5: after the successful completion of a fetch the user did not cancel,
\* every image combo box holds exactly the returned records, in order,
\* with display text = filename and value = record.
C5_SuccessRepopulatesEveryCombo ==
    [][\A r \in DOMAIN requests :
         (CompletionStep(r) /\ ~out'.arg.error /\ ~dialogs[r].canceled)
            => \A s \in Selectors : comboItems'[s] = EntriesOf(out'.arg.result)]_vars

\* C6: validateCurrentPage on the server page with remote selected and an
\* empty registry returns false, shows an error dialog, keeps the stored
\* server and stays on the page.
C6_RemoteWithoutServersBlocked ==
    [][(page = "server" /\ radio = "remote" /\ remoteServers = <<>>
            /\ out'.op = "validateCurrentPage")
          => (out'.ret = "False" /\ out'.dialog # Nothing
                /\ server' = server /\ page' = "server")]_vars

\* C6 witness: advancement was blocked with remote selected and no server
C6_Witness ==
    /\ page = "server"
    /\ radio = "remote"
    /\ remoteServers = <<>>
    /\ out.op = "validateCurrentPage"
    /\ out.ret = "False"

\* C7: validateCurrentPage on the name page permits advancement iff the name
\* equals (case-sensitively) no configured device's name; otherwise it
\* blocks and shows an error dialog.
C7_NameUniqueness ==
    [][(page = "name" /\ out'.op = "validateCurrentPage")
          => /\ (page' = "done") <=> (nameText \notin {"R1", "R2"})
             /\ (out'.ret = "True") <=> (page' = "done")
             /\ (out'.ret = "False") => (out'.dialog # Nothing /\ page' = "name")]_vars

\* C7 witness: a name that differs from a configured one only in case passed
C7_Witness ==
    /\ page = "done"
    /\ out.op = "validateCurrentPage"
    /\ out.ret = "True"
    /\ nameText = "r1"

\* the "host:port" labels of the registered remote servers
RegisteredTokens ==
    { remoteServers[i].host \o ":" \o ToString(remoteServers[i].port) : i \in 1..Len(remoteServers) }

\* C8: the server token of the settings is "local" for local, the host:port
\* of a registered server for remote with load-balance, the text displayed in
\* the chooser for remote without load-balance, "cloud" otherwise; in every
\* case it is "local", "cloud" or the host:port of a registered server.
C8_ServerToken ==
    page = "done" =>
        /\ radio = "local" => settings.server = "local"
        /\ (radio = "remote" /\ loadBalance) => settings.server \in RegisteredTokens
        /\ (radio = "remote" /\ ~loadBalance)
              => settings.server = CurrentText(remoteCombo, remoteIndex)
        /\ radio = "cloud" => settings.server = "cloud"
        /\ settings.server \in {"local", "cloud"} \cup RegisteredTokens

\* C8 witness: settings assembled with remote and load-balance selected
C8_Witness ==
    /\ page = "done"
    /\ radio = "remote"
    /\ loadBalance
    /\ settings.server = "a:8001"

\* C9: the settings carry exactly the fixed tuple of the selected type.
C9_TypeTuple ==
    page = "done" =>
        /\ typeIndex = 0 =>
              /\ settings.ethernet_adapters = 4
              /\ settings.serial_adapters = 0
              /\ settings.default_symbol = ":/symbols/multilayer_switch.normal.svg"
              /\ settings.hover_symbol = ":/symbols/multilayer_switch.selected.svg"
              /\ settings.category = "switches"
        /\ typeIndex = 1 =>
              /\ settings.ethernet_adapters = 2
              /\ settings.serial_adapters = 2
              /\ settings.default_symbol = ":/symbols/router.normal.svg"
              /\ settings.hover_symbol = ":/symbols/router.selected.svg"
              /\ settings.category = "routers"

\* C9 witness: L3 settings assembled for a remote server and a path naming l2
C9_Witness ==
    /\ page = "done"
    /\ typeIndex = 1
    /\ radio = "remote"
    /\ Contains(<<"l", "2">>, settings.path)
    /\ settings.serial_adapters = 2

\* C10 as claimed: a changed image path selects L2 when it contains "l2",
\* selects L3 when it contains "l3", and leaves the type otherwise.
C10_TextSelectsType ==
    [][lineText'[IOUSelector] # lineText[IOUSelector] =>
          LET text == lineText'[IOUSelector]
          IN  /\ Contains(<<"l", "2">>, text) => typeIndex' = 0
              /\ Contains(<<"l", "3">>, text) => typeIndex' = 1
              /\ (~Contains(<<"l", "2">>, text) /\ ~Contains(<<"l", "3">>, text))
                    => typeIndex' = typeIndex]_vars

\* C10 amended: a changed image path selects L2 when it contains "l2",
\* selects L3 when it contains "l3" and not "l2", and leaves the type otherwise.
C10_TextSelectsTypeL2First ==
    [][lineText'[IOUSelector] # lineText[IOUSelector] =>
          LET text == lineText'[IOUSelector]
          IN  /\ Contains(<<"l", "2">>, text) => typeIndex' = 0
              /\ (Contains(<<"l", "3">>, text) /\ ~Contains(<<"l", "2">>, text))
                    => typeIndex' = 1
              /\ (~Contains(<<"l", "2">>, text) /\ ~Contains(<<"l", "3">>, text))
                    => typeIndex' = typeIndex]_vars

\* C10 witness: a path containing both tokens is in the field, L2 selected
C10_Witness ==
    /\ page = "name"
    /\ lineText[IOUSelector] = BothFile
    /\ typeIndex = 0
    /\ lineVisible[IOUSelector]

\* C11: in a run with the local server and the existing-image option
\* selected, a populated combo box whose current entry has filename f and
\* a unique name n, getSettings returns name = n, path = f,
\* image = basename of f and server = "local".
C11_EndToEndSettings ==
    (page = "done" /\ radio = "local" /\ existingChecked[IOUSelector]
        /\ comboIndex[IOUSelector] >= 0)
    => LET f == comboItems[IOUSelector][comboIndex[IOUSelector] + 1].data.filename
       IN  /\ settings.name = nameText
           /\ settings.path = f
           /\ settings.image = Basename(f)
           /\ settings.server = "local"

\* C12: when use_local_server is set the wizard starts at the name page, the
\* server page is never entered, initialized or validated, and every
\* image-list request goes to the local server.
C12_LocalServerSkipsServerPage ==
    use_local_server =>
        /\ page \in {"init", "name", "done"}
        /\ out.op \in {"initializePage", "validateCurrentPage"} => out.arg = "name"
        /\ server = LocalServer
        /\ \A r \in DOMAIN requests :
              requests[r].state = "inflight" => requests[r].server = LocalServer

\* C12 witness: a run that used the local server ended with settings
C12_Witness ==
    /\ use_local_server
    /\ page = "done"
    /\ requests # <<>>
    /\ settings.server = "local"

\* C13: allocateUDPPort(port_id) issues a POST to "/ports/udp" and emits no
\* signal; allocate_udp_nio_signal is emitted only by the callback of a
\* request that delivers a udp_port, with exactly (node id, the port_id
\* given to that call, the delivered udp_port).
C13_AllocateUDPPortSignal ==
    [][/\ Len(posts') > Len(posts) =>
            (posts'[Len(posts')].path = "/ports/udp" /\ signals' = signals)
       /\ signals' # signals =>
            \E i \in DOMAIN posts :
               /\ posts[i].state = "pending"
               /\ posts'[i].state = "done"
               /\ signals' = Append(signals, <<7, posts[i].port_id, posts'[i].result.udp_port>>)]_vars

\* C13 witness: the call for port 1 was answered with udp_port 4242 and the
\* signal carries (id, 1, 4242), while a later call is still unanswered
C13_Witness ==
    /\ Len(posts) = 2
    /\ posts[1].port_id = 1
    /\ posts[1].state = "done"
    /\ posts[2].port_id = 2
    /\ posts[2].state = "pending"
    /\ signals = << <<7, 1, 4242>> >>

\* C14: every completion with an error whose progress dialog the user did
\* not cancel shows an error dialog carrying the server's message.
C14_ErrorIsReported ==
    [][\A r \in DOMAIN requests :
         (CompletionStep(r) /\ out'.arg.error /\ ~dialogs[r].canceled)
            => out'.dialog = "Error while getting the VMs: " \o out'.arg.result.message]_vars

\* C15: the completion callback never runs while the progress-dialog
\* reference is None, so no completion ends in an unhandled AttributeError.
C15_CallbackFindsDialog ==
    [][\A r \in DOMAIN requests :
         CompletionStep(r) => (progressDialog # NoDialog /\ out'.exc # "AttributeError")]_vars

\* C16: the browse button is hidden while the remote option is selected, and
\* its visibility depends on the input state only: it is hidden in the
\* input state of the start (remote not selected, existing image selected).
C16_BrowseVisibilityByInputState ==
    \A s \in Selectors :
        /\ radio = "remote" => ~browserVisible[s]
        /\ (radio # "remote" /\ existingChecked[s]) => ~browserVisible[s]

\* C17: while the server page is shown, the chooser holds exactly one entry
\* per registered remote server, labelled "host:port" with the server as
\* value.
C17_ChooserMatchesRegistry ==
    page = "server" =>
        /\ Len(remoteCombo) = Len(remoteServers)
        /\ \A i \in 1..Len(remoteCombo) :
              /\ remoteCombo[i].data = remoteServers[i]
              /\ remoteCombo[i].text
                    = remoteServers[i].host \o ":" \o ToString(remoteServers[i].port)
        /\ \A i, j \in 1..Len(remoteCombo) : remoteCombo[i] = remoteCombo[j] => i = j

\* C17 witness: the server page entered again (after a fetch) shows both servers
C17_Witness ==
    /\ page = "server"
    /\ requests # <<>>
    /\ Len(remoteCombo) = 2
    /\ remoteCombo[1].text = "b:8002"

\* the token that names a server
TokenOf(srv) ==
    IF srv = LocalServer THEN "local" ELSE srv.host \o ":" \o ToString(srv.port)

\* C18: in a completed run the server stored by validateCurrentPage, to which
\* the image list request was sent, is the one the settings' token names.
C18_FetchServerIsSettingsServer ==
    page = "done" => settings.server = TokenOf(server)

\* C19: the combo-selection handler run for an index that has no item
\* raises no error.
C19_NoItemRaisesNothing == out.exc # "TypeError"

\* C20: while manual path entry is selected, a fetch completion changes
\* neither the image path field nor the selected type.
C20_CompletionKeepsManualPath ==
    [][\A r \in DOMAIN requests :
         (CompletionStep(r) /\ ~existingChecked[IOUSelector])
            => (lineText' = lineText /\ typeIndex' = typeIndex)]_vars

====
